---- MODULE Spec2Model ----
(***************************************************************************)
(* Model of wire_client.c: a process-wide base URL slot (server_url), the  *)
(* three implemented operations initialize_connection, execute_query and   *)
(* close_connection, and the libcurl write callback WriteMemoryCallback    *)
(* that accumulates the response body.                                     *)
(*                                                                         *)
(* Strings are sequences of byte values (integers); a C string never       *)
(* holds the byte 0.  A char* is a record [null, s]: NULL, or a pointer to *)
(* the byte sequence s.  The URL copies made by strdup live in urlHeap,    *)
(* indexed from 1; server_url is an index into it, 0 standing for NULL.    *)
(*                                                                         *)
(* The library is single-threaded and blocking: an API call starts only    *)
(* when no other call is running (pc = "idle").  execute_query blocks in   *)
(* curl_easy_perform, during which the transport delivers response chunks  *)
(* to WriteMemoryCallback; that is the only point where the call is split  *)
(* into several steps.                                                     *)
(*                                                                         *)
(* Environment outcomes modelled: malloc(1) of the response buffer may     *)
(* fail, curl_easy_init may fail, realloc in the callback may fail, the    *)
(* transfer may fail before or after any chunk.  The value of a freshly    *)
(* allocated byte is indeterminate.  A sprintf that writes past the end of *)
(* post_data is undefined behaviour: the process may fault, or go on with  *)
(* the body as formatted, or with the bytes past the buffer clobbered.     *)
(* strdup, the allocation of full_url and curl_slist_append are taken to   *)
(* succeed.                                                                *)
(***************************************************************************)
EXTENDS Integers, Sequences, FiniteSets, TLC

VARIABLES
    server_url,   \* static char* server_url: 0 (NULL) or an index into urlHeap
    urlHeap,      \* every strdup'ed URL copy, in allocation order: [str, frees]
    pc,           \* "idle" | "perform" (inside curl_easy_perform) | "crashed"
    chunk,        \* struct MemoryStruct chunk of the running/last execute_query
    request,      \* what was set on the curl handle: url, post, postfields, headers
    smashed,      \* the last sprintf into post_data wrote past its end
    delivered,    \* chunks handed to WriteMemoryCallback during the running/last request
    cbRet,        \* return value of the last WriteMemoryCallback invocation
    aborted,      \* a callback returned short, the transfer is aborted
    result,       \* char* returned by the last execute_query
    rc,           \* int returned by the last initialize_connection
    diag,         \* messages written to stdout/stderr by the running/last call
    net,          \* transport and allocator calls made by the running/last API call
    lastOp,       \* name of the last API function called
    lastArg,      \* its pointer argument
    ncalls,       \* number of API calls made so far
    lifecycle     \* history of successful initialize_connection and close_connection calls

vars == <<server_url, urlHeap, pc, chunk, request, smashed, delivered, cbRet,
          aborted, result, rc, diag, net, lastOp, lastArg, ncalls, lifecycle>>

-----------------------------------------------------------------------------
(* Bounds of the model *)

MaxCalls == 3        \* API calls per behaviour
MaxChunks == 2       \* chunks delivered per request
MaxQueryLen == 1     \* length of the enumerated short queries
Slack == 1           \* long queries run from the buffer limit to Slack past it

(* Program constants *)

POST_DATA_SIZE == 1024   \* char post_data[1024]
FULL_URL_EXTRA == 20     \* malloc(strlen(server_url) + 20)

-----------------------------------------------------------------------------
(* Pointers and strings *)

NULL == [null |-> TRUE, s |-> <<>>]
Ptr(s) == [null |-> FALSE, s |-> s]

\* "/execute_query"
ExecutePath == <<47, 101, 120, 101, 99, 117, 116, 101, 95, 113, 117, 101, 114, 121>>
\* {"query": "
BodyPrefix == <<123, 34, 113, 117, 101, 114, 121, 34, 58, 32, 34>>
\* "}
BodySuffix == <<34, 125>>
ContentTypeHeader == "Content-Type: application/json"

\* Values an uninitialised byte may be read as: zero, or something else.
Indeterminate == {0, 170}

\* '"' and '\': the characters JSON would need escaped
QueryAlphabet == {34, 92}

RECURSIVE SeqsUpTo(_, _)
SeqsUpTo(S, n) ==
    IF n = 0 THEN {<<>>}
    ELSE LET shorter == SeqsUpTo(S, n - 1)
         IN  shorter \cup {Append(s, x) : s \in shorter, x \in S}

Fill(n, b) == [i \in 1..n |-> b]

\* Length of the longest query whose body and terminator fit post_data.
FitLimit == POST_DATA_SIZE - (Len(BodyPrefix) + Len(BodySuffix) + 1)

Queries ==
    SeqsUpTo(QueryAlphabet, MaxQueryLen)
        \cup {Fill(n, 97) : n \in FitLimit..(FitLimit + Slack)}

\* "h" and "u2"
Urls == {<<104>>, <<117, 50>>}

\* "ab", "c" and the empty chunk
Chunks == {<<97, 98>>, <<99>>, <<>>}

RECURSIVE Flatten(_)
Flatten(cs) == IF cs = <<>> THEN <<>> ELSE Head(cs) \o Flatten(Tail(cs))

-----------------------------------------------------------------------------
(* Initial state: server_url = NULL, nothing allocated, nothing called. *)

NoRequest == [set |-> FALSE, url |-> <<>>, post |-> FALSE, postfields |-> <<>>,
              headers |-> <<>>]
NoNet == [global_init |-> 0, easy_init |-> 0, handles |-> 0, perform |-> 0,
          easy_cleanup |-> 0, global_cleanup |-> 0, buffers |-> 0]
EmptyChunk == [memory |-> NULL, size |-> 0]

Init ==
    /\ server_url = 0
    /\ urlHeap = <<>>
    /\ pc = "idle"
    /\ chunk = EmptyChunk
    /\ request = NoRequest
    /\ smashed = FALSE
    /\ delivered = <<>>
    /\ cbRet = 0
    /\ aborted = FALSE
    /\ result = NULL
    /\ rc = 0
    /\ diag = <<>>
    /\ net = NoNet
    /\ lastOp = "none"
    /\ lastArg = NULL
    /\ ncalls = 0
    /\ lifecycle = <<>>

\* An API function is entered: the caller is not inside another call.
Enter(op, arg) ==
    /\ pc = "idle"
    /\ ncalls < MaxCalls
    /\ ncalls' = ncalls + 1
    /\ lastOp' = op
    /\ lastArg' = arg

\* The locals of execute_query do not outlive the call that follows it.
NoLocals ==
    /\ chunk' = EmptyChunk
    /\ request' = NoRequest
    /\ smashed' = FALSE
    /\ delivered' = <<>>
    /\ cbRet' = 0
    /\ aborted' = FALSE
    /\ diag' = <<>>
    /\ net' = NoNet

-----------------------------------------------------------------------------
(* int initialize_connection(const char* url) *)

\* Variant: the url == NULL test is missing, an empty copy is stored.
InitializeConnection_NoNullCheck(url) ==
    /\ Enter("initialize_connection", url)
    /\ urlHeap' = Append(urlHeap, [str |-> url.s, frees |-> 0])
    /\ server_url' = Len(urlHeap) + 1
    /\ rc' = 0
    /\ lifecycle' = Append(lifecycle, "init")
    /\ result' = NULL
    /\ NoLocals
    /\ UNCHANGED pc

\* Variant: the previous copy is released before the slot is overwritten.
InitializeConnection_FreesPrevious(url) ==
    /\ Enter("initialize_connection", url)
    /\ IF url.null
       THEN /\ rc' = -1
            /\ UNCHANGED <<server_url, urlHeap, lifecycle>>
       ELSE /\ urlHeap' = Append(IF server_url # 0
                                 THEN [urlHeap EXCEPT ![server_url].frees = @ + 1]
                                 ELSE urlHeap,
                                 [str |-> url.s, frees |-> 0])
            /\ server_url' = Len(urlHeap) + 1
            /\ rc' = 0
            /\ lifecycle' = Append(lifecycle, "init")
    /\ result' = NULL
    /\ NoLocals
    /\ UNCHANGED pc

InitializeConnection(url) ==
    /\ Enter("initialize_connection", url)
    /\ IF url.null
       THEN /\ rc' = -1
            /\ UNCHANGED <<server_url, urlHeap, lifecycle>>
       ELSE /\ urlHeap' = Append(urlHeap, [str |-> url.s, frees |-> 0])
            /\ server_url' = Len(urlHeap) + 1
            /\ rc' = 0
            /\ lifecycle' = Append(lifecycle, "init")
    /\ result' = NULL
    /\ NoLocals
    /\ UNCHANGED pc

-----------------------------------------------------------------------------
(* void close_connection() *)

\* Variant: the copy is released but server_url keeps pointing at it.
CloseConnection_NoReset ==
    /\ Enter("close_connection", NULL)
    /\ IF server_url # 0
       THEN /\ urlHeap' = [urlHeap EXCEPT ![server_url].frees = @ + 1]
            /\ UNCHANGED server_url
       ELSE UNCHANGED <<server_url, urlHeap>>
    /\ lifecycle' = Append(lifecycle, "close")
    /\ result' = NULL
    /\ rc' = 0
    /\ NoLocals
    /\ UNCHANGED pc

\* Variant: server_url is reset but the copy is never released.
CloseConnection_NoFree ==
    /\ Enter("close_connection", NULL)
    /\ server_url' = 0
    /\ UNCHANGED urlHeap
    /\ lifecycle' = Append(lifecycle, "close")
    /\ result' = NULL
    /\ rc' = 0
    /\ NoLocals
    /\ UNCHANGED pc

CloseConnection ==
    /\ Enter("close_connection", NULL)
    /\ IF server_url # 0
       THEN /\ urlHeap' = [urlHeap EXCEPT ![server_url].frees = @ + 1]
            /\ server_url' = 0
       ELSE UNCHANGED <<server_url, urlHeap>>
    /\ lifecycle' = Append(lifecycle, "close")
    /\ result' = NULL
    /\ rc' = 0
    /\ NoLocals
    /\ UNCHANGED pc

-----------------------------------------------------------------------------
(* static size_t WriteMemoryCallback(contents, size, nmemb, userp) *)

\* realloc(p, n) when it succeeds: n bytes, the old bytes kept, the new ones
\* indeterminate (g); realloc(NULL, n) is malloc(n).
Realloc(p, n, g) ==
    Ptr([i \in 1..n |-> IF ~p.null /\ i <= Len(p.s) THEN p.s[i] ELSE g])

\* memcpy(&dst[at], src, Len(src)), dst indexed from 0.
Memcpy(dst, at, src) ==
    [i \in 1..Len(dst) |->
        IF i > at /\ i <= at + Len(src) THEN src[i - at] ELSE dst[i]]

\* Variant: the chunk is copied to the start of the buffer, not to its end.
WriteMemoryCallback_CopyAtStart(contents, size, nmemb, mem, ptr) ==
    LET realsize == size * nmemb
    IN  IF ptr.null
        THEN [mem |-> mem, ret |-> 0,
              out |-> <<"Not enough memory (realloc returned NULL)">>]
        ELSE LET copied == Memcpy(ptr.s, 0, contents)
                 newsize == mem.size + realsize
                 closed == [copied EXCEPT ![newsize + 1] = 0]
             IN  [mem |-> [memory |-> Ptr(closed), size |-> newsize],
                  ret |-> realsize, out |-> <<>>]

\* The callback, given what realloc returned (ptr): the new MemoryStruct, the
\* value returned to the transport and what it printed.
WriteMemoryCallback(contents, size, nmemb, mem, ptr) ==
    LET realsize == size * nmemb
    IN  IF ptr.null
        THEN [mem |-> mem, ret |-> 0,
              out |-> <<"Not enough memory (realloc returned NULL)">>]
        ELSE LET copied == Memcpy(ptr.s, mem.size, contents)
                 newsize == mem.size + realsize
                 closed == [copied EXCEPT ![newsize + 1] = 0]
             IN  [mem |-> [memory |-> Ptr(closed), size |-> newsize],
                  ret |-> realsize, out |-> <<>>]

-----------------------------------------------------------------------------
(* char* execute_query(const char* query) *)

\* Variant: only server_url is tested.
Precondition_UrlOnly(url, query) == url # 0

\* if (server_url == NULL || query == NULL) return NULL;
Precondition(url, query) == url # 0 /\ ~query.null

\* Variant: the path is appended without its leading slash.
FullUrl_NoSlash(base) == base \o Tail(ExecutePath)

\* sprintf(full_url, "%s/execute_query", server_url)
FullUrl(base) == base \o ExecutePath

\* sprintf(post_data, "{\"query\": \"%s\"}", query): the characters written,
\* before the terminating 0.
FormatBody(query) == BodyPrefix \o query \o BodySuffix

\* Variant: the terminating 0 is not counted.
Overflows_NoTerminator(body) == Len(body) > POST_DATA_SIZE

\* The formatted text and its terminator do not fit char post_data[1024].
Overflows(body) == Len(body) + 1 > POST_DATA_SIZE

\* malloc(1): NULL, or one byte of indeterminate value.
Malloc1 == {NULL} \cup {Ptr(<<b>>) : b \in Indeterminate}

\* What the transport may read as the body once post_data was overrun: the
\* text as formatted, or the part inside post_data followed by whatever was
\* stored over the bytes past its end.
UndefinedBodies(body) ==
    {body, [i \in 1..POST_DATA_SIZE + 1 |-> IF i <= POST_DATA_SIZE THEN body[i] ELSE 170]}

\* Outcomes of the sprintf into post_data: within the buffer, the body is the
\* formatted text; past it, the behaviour is undefined (a fault, or one of the
\* bodies above).
SprintfOutcomes(body) ==
    IF Overflows(body)
    THEN {[fault |-> TRUE, body |-> <<>>]}
            \cup {[fault |-> FALSE, body |-> b] : b \in UndefinedBodies(body)}
    ELSE {[fault |-> FALSE, body |-> body]}

\* Lines 39-40: a precondition fails, nothing else runs.
ExecuteQueryRejected(query) ==
    /\ Enter("execute_query", query)
    /\ ~Precondition(server_url, query)
    /\ result' = NULL
    /\ rc' = 0
    /\ NoLocals
    /\ UNCHANGED <<server_url, urlHeap, pc, lifecycle>>

\* Lines 39-51, 79-81: curl_easy_init returns NULL, the if-block is skipped.
ExecuteQueryNoHandle(query, m) ==
    /\ Enter("execute_query", query)
    /\ Precondition(server_url, query)
    /\ chunk' = [memory |-> m, size |-> 0]
    /\ net' = [NoNet EXCEPT !.buffers = 1, !.global_init = 1, !.easy_init = 1,
                            !.global_cleanup = 1]
    /\ result' = m
    /\ rc' = 0
    /\ request' = NoRequest
    /\ smashed' = FALSE
    /\ delivered' = <<>>
    /\ cbRet' = 0
    /\ aborted' = FALSE
    /\ diag' = <<>>
    /\ UNCHANGED <<server_url, urlHeap, pc, lifecycle>>

\* Lines 39-69: the handle is created and configured, curl_easy_perform is
\* entered.  ub is the outcome picked when sprintf overran post_data.
ExecuteQueryPerform(query, m, ub) ==
    /\ Enter("execute_query", query)
    /\ Precondition(server_url, query)
    /\ LET body == FormatBody(query.s)
           over == Overflows(body)
           full_url == FullUrl(urlHeap[server_url].str)
       IN  \* the text and its terminator fit the strlen(server_url) + 20 bytes
           /\ Len(full_url) + 1 <= Len(urlHeap[server_url].str) + FULL_URL_EXTRA
           /\ smashed' = over
           /\ ub \in SprintfOutcomes(body)
           /\ IF ub.fault
              THEN /\ pc' = "crashed"
                   /\ request' = NoRequest
                   /\ net' = [NoNet EXCEPT !.buffers = 1, !.global_init = 1,
                                           !.easy_init = 1, !.handles = 1]
              ELSE /\ pc' = "perform"
                   /\ request' = [set |-> TRUE, url |-> full_url, post |-> TRUE,
                                  postfields |-> ub.body,
                                  headers |-> <<ContentTypeHeader>>]
                   /\ net' = [NoNet EXCEPT !.buffers = 1, !.global_init = 1,
                                           !.easy_init = 1, !.handles = 1,
                                           !.perform = 1]
    /\ chunk' = [memory |-> m, size |-> 0]
    /\ result' = NULL
    /\ rc' = 0
    /\ delivered' = <<>>
    /\ cbRet' = 0
    /\ aborted' = FALSE
    /\ diag' = <<>>
    /\ UNCHANGED <<server_url, urlHeap, lifecycle>>

\* The transport hands one chunk of the response to the callback.
Deliver(contents, size, ptr) ==
    /\ pc = "perform"
    /\ ~aborted
    /\ Len(delivered) < MaxChunks
    /\ Len(contents) % size = 0
    /\ LET nmemb == Len(contents) \div size
           r == WriteMemoryCallback(contents, size, nmemb, chunk, ptr)
       IN  /\ chunk' = r.mem
           /\ cbRet' = r.ret
           /\ aborted' = (r.ret # size * nmemb)
           /\ diag' = diag \o r.out
    /\ delivered' = Append(delivered, contents)
    /\ UNCHANGED <<server_url, urlHeap, pc, request, smashed, result, rc, net,
                   lastOp, lastArg, ncalls, lifecycle>>

\* Lines 69-81: curl_easy_perform returns res, the handle is cleaned up and
\* chunk.memory is returned.
ExecuteQueryReturn(res) ==
    /\ pc = "perform"
    /\ aborted => res = "CURLE_WRITE_ERROR"
    /\ diag' = IF res # "CURLE_OK"
               THEN Append(diag, "curl_easy_perform() failed")
               ELSE diag
    /\ net' = [net EXCEPT !.easy_cleanup = @ + 1, !.global_cleanup = @ + 1]
    /\ result' = chunk.memory
    /\ pc' = "idle"
    /\ UNCHANGED <<server_url, urlHeap, chunk, request, smashed, delivered, cbRet,
                   aborted, rc, lastOp, lastArg, ncalls, lifecycle>>

\* The overrun of post_data makes the process fault at some later point.
StackFault ==
    /\ pc = "perform"
    /\ smashed
    /\ pc' = "crashed"
    /\ UNCHANGED <<server_url, urlHeap, chunk, request, smashed, delivered, cbRet,
                   aborted, result, rc, diag, net, lastOp, lastArg, ncalls, lifecycle>>

-----------------------------------------------------------------------------

UrlArgs == {NULL} \cup {Ptr(u) : u \in Urls}
QueryArgs == {NULL} \cup {Ptr(q) : q \in Queries}
Results == {"CURLE_OK", "CURLE_COULDNT_CONNECT", "CURLE_WRITE_ERROR"}

Next ==
    \/ \E url \in UrlArgs : InitializeConnection(url)
    \/ CloseConnection
    \/ \E query \in QueryArgs : ExecuteQueryRejected(query)
    \/ \E query \in QueryArgs, m \in Malloc1 : ExecuteQueryNoHandle(query, m)
    \/ \E query \in QueryArgs, m \in Malloc1 :
          \E ub \in SprintfOutcomes(FormatBody(query.s)) :
             ExecuteQueryPerform(query, m, ub)
    \* libcurl always passes size = 1 to the write callback
    \/ \E contents \in Chunks, g \in Indeterminate :
          \E ptr \in {NULL, Realloc(chunk.memory, chunk.size + Len(contents) + 1, g)} :
             Deliver(contents, 1, ptr)
    \/ \E res \in Results : ExecuteQueryReturn(res)
    \/ StackFault

Spec == Init /\ [][Next]_vars

-----------------------------------------------------------------------------
(* Vocabulary of the properties *)

\* This step is the entry of API function op.
Calls(op) == ncalls' = ncalls + 1 /\ lastOp' = op

\* The URL the connection slot holds, as a pointer: NULL when unset.
StoredUrl == IF server_url = 0 THEN NULL ELSE Ptr(urlHeap[server_url].str)

\* The last close_connection or successful initialize_connection, if any.
LastLifecycle == IF lifecycle = <<>> THEN "none" ELSE lifecycle[Len(lifecycle)]

\* An execute_query step that does what a rejected call does: NULL returned,
\* no allocation, no transport call, the connection state as it was.
RejectedOutcome ==
    /\ result'.null
    /\ pc' = "idle"
    /\ net' = NoNet
    /\ chunk' = EmptyChunk
    /\ ~request'.set
    /\ server_url' = server_url
    /\ urlHeap' = urlHeap

\* URL copies that were allocated and not released.
Unreleased == {i \in 1..Len(urlHeap) : urlHeap[i].frees = 0}

\* No realloc failed during the running/last request.
ReallocsSucceeded ==
    \A i \in 1..Len(diag) : diag[i] # "Not enough memory (realloc returned NULL)"

\* Copies a lifecycle history must have leaked: one for each successful
\* initialize_connection directly followed by another one.
RECURSIVE OverwrittenCopies(_)
OverwrittenCopies(h) ==
    IF Len(h) < 2 THEN 0
    ELSE (IF h[1] = "init" /\ h[2] = "init" THEN 1 ELSE 0) + OverwrittenCopies(Tail(h))

-----------------------------------------------------------------------------
\* C1: execute_query called while server_url is NULL, or with a NULL query,
\* returns NULL, makes no transport call and no allocation (no global init,
\* no handle, no POST, no buffer) and leaves the connection state unchanged.
C1_RejectedCallHasNoEffect ==
    [][(Calls("execute_query") /\ (server_url = 0 \/ lastArg'.null))
          => RejectedOutcome]_vars

C1_Witness ==
    /\ lastOp = "execute_query"
    /\ pc = "idle"
    /\ ncalls = 1
    /\ urlHeap = <<>>
    /\ lastArg = Ptr(<<34>>)
    /\ result.null
    /\ net = NoNet

\* C2: once close_connection was the last lifecycle call, server_url is NULL,
\* and every execute_query made then is rejected exactly like one made before
\* any initialize_connection, until the next successful initialize_connection.
C2_ClosedIsNeverInitialized ==
    /\ [](LastLifecycle = "close" => server_url = 0)
    /\ [][(Calls("execute_query") /\ LastLifecycle = "close") => RejectedOutcome]_vars

C2_Witness ==
    /\ lastOp = "execute_query"
    /\ pc = "idle"
    /\ lifecycle = <<"init", "close">>
    /\ urlHeap = <<[str |-> <<104>>, frees |-> 1]>>
    /\ ncalls = 3
    /\ lastArg = Ptr(<<34>>)
    /\ result.null
    /\ net.perform = 0

\* C3: close_connection leaves server_url NULL and makes no transport call;
\* it releases the stored copy when there is one; a close_connection that
\* directly follows another changes nothing and releases nothing; no URL copy
\* is released more than once.
C3_CloseIdempotent ==
    /\ [][Calls("close_connection")
            => /\ server_url' = 0
               /\ net' = NoNet
               /\ pc' = "idle"
               /\ server_url # 0 => urlHeap'[server_url].frees = 1]_vars
    /\ [][(Calls("close_connection") /\ lastOp = "close_connection")
            => (server_url' = server_url /\ urlHeap' = urlHeap)]_vars
    /\ [](\A i \in 1..Len(urlHeap) : urlHeap[i].frees <= 1)

C3_Witness ==
    /\ lastOp = "close_connection"
    /\ lifecycle = <<"init", "close", "close">>
    /\ server_url = 0
    /\ urlHeap = <<[str |-> <<104>>, frees |-> 1]>>

\* C4: initialize_connection(NULL) returns non-zero and leaves server_url and
\* the stored copy as they were; initialize_connection(U) returns 0 and the
\* slot then holds a live copy of U.
C4_InitializeContract ==
    [][Calls("initialize_connection")
         => IF lastArg'.null
            THEN /\ rc' # 0
                 /\ server_url' = server_url
                 /\ urlHeap' = urlHeap
            ELSE /\ rc' = 0
                 /\ server_url' # 0
                 /\ StoredUrl' = lastArg'
                 /\ urlHeap'[server_url'].frees = 0]_vars

C4_Witness ==
    /\ lastOp = "initialize_connection"
    /\ lastArg.null
    /\ rc # 0
    /\ server_url = 1
    /\ urlHeap = <<[str |-> <<104>>, frees |-> 0]>>
    /\ ncalls = 2

\* C5 as stated: every execute_query(Q) with Q non-NULL that runs while the
\* slot holds U issues exactly one POST, to U followed by "/execute_query".
C5_AlwaysExactlyOnePost ==
    [][(Calls("execute_query") /\ server_url # 0 /\ ~lastArg'.null)
          => /\ net'.perform = 1
             /\ request'.url = urlHeap[server_url].str \o ExecutePath]_vars

\* C5 amended: such a call issues at most one POST: exactly one when the
\* transport handle was created and the call did not fault on an overrun
\* post_data, none otherwise.  The POST goes to U followed by
\* "/execute_query" with the single header Content-Type: application/json,
\* and nothing is issued or reconfigured later in the call.  U is the
\* argument of the latest successful initialize_connection: only
\* initialize_connection and close_connection change the stored URL.
C5_OnePostWhenHandleCreated ==
    /\ [][(Calls("execute_query") /\ server_url # 0 /\ ~lastArg'.null)
            => /\ net'.perform = (IF net'.handles = 1 /\ pc' # "crashed" THEN 1 ELSE 0)
               /\ net'.perform = 1
                    => /\ request'.set
                       /\ request'.post
                       /\ request'.url =
                            urlHeap[server_url].str
                               \o <<47, 101, 120, 101, 99, 117, 116, 101, 95,
                                    113, 117, 101, 114, 121>>
                       /\ request'.headers = <<"Content-Type: application/json">>]_vars
    /\ [][pc = "perform" => (net'.perform = net.perform /\ request' = request)]_vars
    /\ [][Calls("initialize_connection") /\ ~lastArg'.null
            => StoredUrl' = lastArg']_vars
    /\ [][~Calls("initialize_connection") /\ ~Calls("close_connection")
            => StoredUrl' = StoredUrl]_vars

C5_Witness ==
    /\ lastOp = "execute_query"
    /\ pc = "perform"
    /\ net.perform = 1
    /\ lastArg = Ptr(<<34>>)
    /\ chunk = [memory |-> Ptr(<<0>>), size |-> 0]
    /\ urlHeap = <<[str |-> <<104>>, frees |-> 0], [str |-> <<117, 50>>, frees |-> 0]>>
    /\ server_url = 2
    /\ request.url = <<117, 50>> \o ExecutePath

\* C6 as stated: for every non-NULL Q the body handed to the transport is
\* {"query": " followed by Q followed by "}.
C6_BodyAlwaysExact ==
    (lastOp = "execute_query" /\ pc = "perform")
        => request.postfields = BodyPrefix \o lastArg.s \o BodySuffix

\* C6 amended: the sprintf writes length(Q) + 14 bytes, which stay inside the
\* 1024-byte post_data exactly when length(Q) <= 1010; for those Q the body
\* handed to the transport is the 11 characters {"query": " followed by Q
\* verbatim followed by the 2 characters "}.  For longer Q the write exceeds
\* the buffer and what is handed over, if anything, is undefined.
C6_BodyExactWithinBuffer ==
    (lastOp = "execute_query" /\ pc \in {"perform", "crashed"})
        => /\ smashed <=> Len(lastArg.s) > 1010
           /\ ~smashed
                => /\ request.postfields =
                        <<123, 34, 113, 117, 101, 114, 121, 34, 58, 32, 34>>
                           \o lastArg.s \o <<34, 125>>
                   /\ Len(request.postfields) + 1 = Len(lastArg.s) + 14
                   /\ Len(request.postfields) + 1 <= 1024

C6_Witness ==
    /\ lastOp = "execute_query"
    /\ pc = "perform"
    /\ Len(lastArg.s) = 1010
    /\ ~smashed
    /\ Len(request.postfields) = 1023
    /\ urlHeap = <<[str |-> <<104>>, frees |-> 0]>>
    /\ chunk = [memory |-> Ptr(<<0>>), size |-> 0]
    /\ delivered = <<>>

\* C7: while every realloc succeeds, after each chunk handed to
\* WriteMemoryCallback the buffer holds the concatenation of the chunks
\* delivered so far, in order, followed by a 0, chunk.size is the sum of
\* their lengths and never decreases, the callback returned the length of the
\* chunk it was given, and execute_query returns that buffer.
C7_AccumulationInOrder ==
    /\ []((lastOp = "execute_query" /\ request.set /\ ReallocsSucceeded)
            => /\ chunk.size = Len(Flatten(delivered))
               /\ delivered # <<>>
                    => /\ ~chunk.memory.null
                       /\ chunk.memory.s = Flatten(delivered) \o <<0>>
                       /\ cbRet = Len(delivered[Len(delivered)])
               /\ pc = "idle" => result = chunk.memory)
    /\ [][pc = "perform" => chunk'.size >= chunk.size]_vars

C7_Witness ==
    /\ lastOp = "execute_query"
    /\ pc = "idle"
    /\ delivered = <<<<97, 98>>, <<99>>>>
    /\ diag = <<>>
    /\ lastArg = Ptr(<<34>>)
    /\ urlHeap = <<[str |-> <<104>>, frees |-> 0]>>
    /\ ~result.null
    /\ result.s = <<97, 98, 99, 0>>

\* C8: whenever server_url is set and the query is non-NULL, execute_query
\* returns a non-NULL buffer, whatever the outcome of the call: transport
\* failure, no transport handle, failure of the initial malloc(1).
C8_NonNullWhenPreconditionsHold ==
    (lastOp = "execute_query" /\ pc = "idle" /\ server_url # 0 /\ ~lastArg.null)
        => ~result.null

\* C9: whenever execute_query returns a non-NULL buffer, the byte at index
\* chunk.size is 0, for every number of delivered chunks, zero included.
C9_ResultNullTerminated ==
    (lastOp = "execute_query" /\ pc = "idle" /\ ~result.null)
        => result.s[chunk.size + 1] = 0

\* C10: the slot refers to at most one copy, the most recent one;
\* initialize_connection overwrites a stored copy without releasing it; a
\* copy the slot no longer refers to is never touched again, so only the
\* most recent copy can be released; no copy is released twice; the copies
\* left unreleased are the one still stored plus one for every successful
\* initialize_connection directly followed by another (k in a row leave k-1).
C10_OverwrittenCopiesLeak ==
    /\ [](/\ server_url \in 0..Len(urlHeap)
          /\ server_url # 0 => (server_url = Len(urlHeap) /\ urlHeap[server_url].frees = 0)
          /\ \A i \in 1..Len(urlHeap) : urlHeap[i].frees <= 1
          /\ Cardinality(Unreleased)
                = OverwrittenCopies(lifecycle) + (IF server_url # 0 THEN 1 ELSE 0))
    /\ [][\A i \in 1..Len(urlHeap) : i # server_url => urlHeap'[i] = urlHeap[i]]_vars
    /\ [][(Calls("initialize_connection") /\ ~lastArg'.null /\ server_url # 0)
            => /\ server_url' # server_url
               /\ urlHeap'[server_url] = urlHeap[server_url]]_vars

C10_Witness ==
    /\ lifecycle = <<"init", "init", "close">>
    /\ server_url = 0
    /\ Unreleased = {1}
    /\ urlHeap = <<[str |-> <<104>>, frees |-> 0], [str |-> <<117, 50>>, frees |-> 1]>>

====
